---- MODULE Spec2Model ----
(***************************************************************************)
(* Korean Words API (APIProgect/main.py): a directory of JSON documents    *)
(* served over HTTP.  One document file is modelled; every handler loads   *)
(* it, scans data["words"] (categories, each with items) and answers; the  *)
(* update handler mutates one item and writes the whole document back.     *)
(*                                                                         *)
(* JSON scalars are records [t, n, s]: t is the JSON type, n the number    *)
(* (or the boolean as 0/1), s the string as a sequence of characters.      *)
(* JSON objects (items, categories, the top-level object) are functions    *)
(* from their keys; JSON arrays are sequences.                             *)
(***************************************************************************)
EXTENDS Integers, Sequences, FiniteSets, TLC

VARIABLES
    file,    \* the document file on disk: [kind, fmt, data]
    before,  \* the file as it was when the last request arrived
    last,    \* the last request handled and its response
    proc     \* per worker process: the update request it is handling

vars == <<file, before, last, proc>>

----------------------------------------------------------------------------
(* JSON scalars and Python's view of them *)

IntV(n) == [t |-> "int", n |-> n, s |-> <<>>]
BoolV(b) == [t |-> "bool", n |-> (IF b THEN 1 ELSE 0), s |-> <<>>]
StrV(s) == [t |-> "str", n |-> 0, s |-> s]

\* isinstance(value, str)
IsStr(v) == v.t = "str"

\* Python truthiness of a JSON scalar (item.get("learned", False) in a filter)
Truthy(v) == IF v.t = "str" THEN v.s # <<>> ELSE v.n # 0

\* item.get("id") == item_id for an int item_id: Python compares numbers by
\* value (True == 1), and a string never equals an int
PyEqInt(v, n) == v.t \in {"int", "bool"} /\ v.n = n

UpperCase == <<"A","B","C","D","E","F","G","H","I","J","K","L","M",
               "N","O","P","Q","R","S","T","U","V","W","X","Y","Z">>
LowerCase == <<"a","b","c","d","e","f","g","h","i","j","k","l","m",
               "n","o","p","q","r","s","t","u","v","w","x","y","z">>

LowerChar(c) ==
    IF \E i \in 1..26 : UpperCase[i] = c
    THEN LowerCase[CHOOSE i \in 1..26 : UpperCase[i] = c]
    ELSE c

\* str.lower()
Lower(s) == [i \in 1..Len(s) |-> LowerChar(s[i])]

DigitChar == <<"0","1","2","3","4","5","6","7","8","9">>

RECURSIVE Decimal(_)
Decimal(n) ==
    IF n < 10 THEN <<DigitChar[n + 1]>>
    ELSE Decimal(n \div 10) \o <<DigitChar[(n % 10) + 1]>>

\* str(value)
Str(v) ==
    CASE v.t = "str" -> v.s
      [] v.t = "bool" -> (IF v.n = 1 THEN <<"T","r","u","e">>
                          ELSE <<"F","a","l","s","e">>)
      [] OTHER -> (IF v.n < 0 THEN <<"-">> \o Decimal(-v.n) ELSE Decimal(v.n))

\* the Python test  q in text  on strings
Contains(q, text) ==
    \E i \in 0..(Len(text) - Len(q)) : SubSeq(text, i + 1, i + Len(q)) = q

----------------------------------------------------------------------------
(* Documents *)

\* category.get("category", "")
CatName(c) == IF "category" \in DOMAIN c THEN c["category"] ELSE StrV(<<>>)

\* category.get("items", [])
CatItems(c) == IF "items" \in DOMAIN c THEN c["items"] ELSE <<>>

\* item.copy() followed by copy["category"] = name
Annotate(item, name) ==
    [k \in DOMAIN item \cup {"category"} |->
        IF k = "category" THEN name ELSE item[k]]

\* the file states load_json_file tells apart
Missing == [kind |-> "missing", fmt |-> "none", data |-> <<>>]
Corrupt == [kind |-> "corrupt", fmt |-> "none", data |-> <<>>]

\* load_json_file: None for an absent file and for one json.load rejects
IsNone(f) == f.kind # "json"

\* json.dump(data, f, ensure_ascii=False, indent=2): the text is rewritten in
\* the dumper's layout, the structure is the one dumped
Dumped(data) == [kind |-> "json", fmt |-> "indent2", data |-> data]

\* get_all_json_files: the *.json entries of the data directory
GetAllJsonFiles(f) == IF f.kind = "missing" THEN 0 ELSE 1

----------------------------------------------------------------------------
(* The scans of data["words"] *)

\* for item in items: if item.get("id") == item_id ... break
\* the index of the first matching item from i on, 0 when there is none
RECURSIVE ScanItems(_, _, _)
ScanItems(items, id, i) ==
    IF i > Len(items) THEN 0
    ELSE IF "id" \in DOMAIN items[i] /\ PyEqInt(items[i]["id"], id) THEN i
    ELSE ScanItems(items, id, i + 1)

\* the outer loop without its break: the last category with a match wins
ScanCategoriesNoBreak(words, id, c) ==
    LET S == {k \in c..Len(words) : ScanItems(CatItems(words[k]), id, 1) > 0}
    IN  IF S = {} THEN <<0, 0>>
        ELSE LET k == CHOOSE k \in S : \A j \in S : j <= k
             IN  <<k, ScanItems(CatItems(words[k]), id, 1)>>

\* for category in data["words"]: (inner loop) ... if found: break
\* <<category index, item index>> of the first match, <<0, 0>> when none
RECURSIVE ScanCategories(_, _, _)
ScanCategories(words, id, c) ==
    IF c > Len(words) THEN <<0, 0>>
    ELSE LET i == ScanItems(CatItems(words[c]), id, 1)
         IN  IF i > 0 THEN <<c, i>> ELSE ScanCategories(words, id, c + 1)

\* d[k] = v on a dict
SetKey(d, k, v) == [x \in DOMAIN d \cup {k} |-> IF x = k THEN v ELSE d[x]]

\* for key, value in custom_data.items(): item[key] = value
SetAll(d, c) ==
    [x \in DOMAIN d \cup DOMAIN c |-> IF x \in DOMAIN c THEN c[x] ELSE d[x]]

\* learned written only into an item that already has the field
MutateItemExistingOnly(item, learned, custom) ==
    LET a == IF learned # <<>> /\ "learned" \in DOMAIN item
             THEN SetKey(item, "learned", BoolV(learned[1]))
             ELSE item
    IN  IF custom # <<>> /\ DOMAIN custom[1] # {} THEN SetAll(a, custom[1])
        ELSE a

\* the mutation of the located item: learned and custom_data are optional
\* (<<>> is None); "if custom_data:" also skips an empty dict
MutateItem(item, learned, custom) ==
    LET a == IF learned # <<>> THEN SetKey(item, "learned", BoolV(learned[1]))
             ELSE item
    IN  IF custom # <<>> /\ DOMAIN custom[1] # {} THEN SetAll(a, custom[1])
        ELSE a

\* the loops without their breaks: every item with the id is mutated
UpdateDataEveryMatch(data, id, learned, custom) ==
    [data EXCEPT !["words"] =
        [c \in 1..Len(@) |->
            IF "items" \in DOMAIN @[c]
            THEN [@[c] EXCEPT !["items"] =
                    [i \in 1..Len(@) |->
                        IF "id" \in DOMAIN @[i] /\ PyEqInt(@[i]["id"], id)
                        THEN MutateItem(@[i], learned, custom)
                        ELSE @[i]]]
            ELSE @[c]]]

\* the loop mutating a copy of the item: data stays as loaded
UpdateDataOnCopy(data, id, learned, custom) == data

\* update_item's loop: data as it is in memory when the loop ends
UpdateData(data, id, learned, custom) ==
    LET pos == ScanCategories(data["words"], id, 1)
    IN  IF pos[1] = 0 THEN data
        ELSE [data EXCEPT !["words"][pos[1]]["items"][pos[2]] =
                              MutateItem(@, learned, custom)]

\* update_item's updated_item: the mutated item copied and annotated
UpdatedItem(data, id, learned, custom) ==
    LET pos == ScanCategories(data["words"], id, 1)
        cat == data["words"][pos[1]]
    IN  Annotate(MutateItem(cat["items"][pos[2]], learned, custom), CatName(cat))

\* get_item_by_id's loop: the first match copied and annotated
FoundItem(data, id) ==
    LET pos == ScanCategories(data["words"], id, 1)
        cat == data["words"][pos[1]]
    IN  Annotate(cat["items"][pos[2]], CatName(cat))

----------------------------------------------------------------------------
(* Search *)

\* the test with the query compared as typed, only the text lowered
ItemMatchesQueryAsTyped(item, q, field) ==
    IF field # <<>> /\ field[1] # ""
    THEN /\ field[1] \in DOMAIN item
         /\ Contains(q, Lower(Str(item[field[1]])))
    ELSE \E key \in DOMAIN item :
            /\ IsStr(item[key])
            /\ Contains(q, Lower(item[key].s))

\* the test search_in_file applies to one item; field is optional (<<>> is
\* None) and "if field:" sends the empty field name to the all-fields branch
ItemMatches(item, q, field) ==
    LET query_lower == Lower(q)
    IN  IF field # <<>> /\ field[1] # ""
        THEN /\ field[1] \in DOMAIN item
             /\ Contains(query_lower, Lower(Str(item[field[1]])))
        ELSE \E key \in DOMAIN item :
                /\ IsStr(item[key])
                /\ Contains(query_lower, Lower(item[key].s))

\* the inner loop of search_in_file over one category's items, from i on
RECURSIVE SearchItems(_, _, _, _, _)
SearchItems(items, name, q, field, i) ==
    IF i > Len(items) THEN <<>>
    ELSE (IF ItemMatches(items[i], q, field)
          THEN <<Annotate(items[i], name)>> ELSE <<>>)
         \o SearchItems(items, name, q, field, i + 1)

\* the outer loop of search_in_file: results in the order appended
RECURSIVE SearchWords(_, _, _, _)
SearchWords(words, q, field, c) ==
    IF c > Len(words) THEN <<>>
    ELSE SearchItems(CatItems(words[c]), CatName(words[c]), q, field, 1)
         \o SearchWords(words, q, field, c + 1)

----------------------------------------------------------------------------
(* Statistics.  Percentages are kept in tenths: 333 is 33.3 *)

\* sum(1 for item in items if item.get("learned", False))
RECURSIVE CountLearned(_, _)
CountLearned(items, i) ==
    IF i > Len(items) THEN 0
    ELSE (IF "learned" \in DOMAIN items[i] /\ Truthy(items[i]["learned"])
          THEN 1 ELSE 0) + CountLearned(items, i + 1)

\* the percentage cut to one decimal instead of rounded
Round1Truncating(learned, total) ==
    IF total > 0 THEN (1000 * learned) \div total ELSE 0

\* round((learned / total * 100) if total > 0 else 0, 1), in tenths.
\* round() rounds to the nearest tenth and a tie to the even one; the ratio
\* is taken exactly (a tie needs a total that is a multiple of 16, where the
\* float quotient is exact too)
Round1(learned, total) ==
    IF total > 0
    THEN LET x == 1000 * learned
             lo == x \div total
             r2 == 2 * (x % total)
         IN  IF r2 < total THEN lo
             ELSE IF r2 > total THEN lo + 1
             ELSE IF lo % 2 = 0 THEN lo ELSE lo + 1
    ELSE 0

\* one entry of categories_stats
CategoryStats(cat) ==
    LET items == CatItems(cat)
        category_total == Len(items)
        category_learned == CountLearned(items, 1)
    IN  [category |-> CatName(cat),
         total |-> category_total,
         learned |-> category_learned,
         percentage |-> Round1(category_learned, category_total)]

\* the running sums of get_file_stats over the categories from c on
RECURSIVE SumTotal(_, _)
SumTotal(words, c) ==
    IF c > Len(words) THEN 0
    ELSE Len(CatItems(words[c])) + SumTotal(words, c + 1)

RECURSIVE SumLearned(_, _)
SumLearned(words, c) ==
    IF c > Len(words) THEN 0
    ELSE CountLearned(CatItems(words[c]), 1) + SumLearned(words, c + 1)

\* the body get_file_stats returns
StatsBody(data) ==
    LET words == data["words"]
        total_items == SumTotal(words, 1)
        total_learned == SumLearned(words, 1)
    IN  [overall |-> [total_items |-> total_items,
                      learned_items |-> total_learned,
                      remaining |-> total_items - total_learned,
                      percentage |-> Round1(total_learned, total_items)],
         by_category |-> [c \in 1..Len(words) |-> CategoryStats(words[c])]]

\* the length of the preview get_categories gives of each category
PreviewLen == 5

\* one entry of get_categories: items[:5] are the stored items, not copies
CategoryEntry(cat) ==
    LET items == CatItems(cat)
    IN  [name |-> CatName(cat),
         item_count |-> Len(items),
         learned_count |-> CountLearned(items, 1),
         items |-> SubSeq(items, 1, IF Len(items) < PreviewLen THEN Len(items)
                                    ELSE PreviewLen)]

CategoriesBody(data) ==
    [categories |-> [c \in 1..Len(data["words"]) |-> CategoryEntry(data["words"][c])],
     total_categories |-> Len(data["words"])]

----------------------------------------------------------------------------
(* The handlers: what each answers for a file f, and what update_item
   leaves on disk.  A response is [status, body]; an error has no body. *)

Error(code) == [status |-> code, body |-> <<>>]
Ok(body) == [status |-> 200, body |-> body]

HasWords(f) == "words" \in DOMAIN f.data

\* GET /files and GET /: the listing never fails
ListFilesResponse(f) == Ok([count |-> GetAllJsonFiles(f)])

\* GET /file/{filename}
GetFileResponse(f) == IF IsNone(f) THEN Error(404) ELSE Ok(f.data)

\* GET /search/{filename}
SearchResponse(f, q, field) ==
    IF IsNone(f) THEN Error(404)
    ELSE IF ~HasWords(f) THEN Error(400)
    ELSE LET results == SearchWords(f.data["words"], q, field, 1)
         IN  Ok([results |-> results, count |-> Len(results)])

\* GET /stats/{filename}
StatsResponse(f) ==
    IF IsNone(f) THEN Error(404)
    ELSE IF ~HasWords(f) THEN Error(400)
    ELSE Ok(StatsBody(f.data))

\* GET /categories/{filename}
CategoriesResponse(f) ==
    IF IsNone(f) THEN Error(404)
    ELSE IF ~HasWords(f) THEN Error(400)
    ELSE Ok(CategoriesBody(f.data))

\* the lookup without its format check: a document without "words" has no
\* item with the id
GetItemResponseNotFoundOnly(f, id) ==
    IF IsNone(f) THEN Error(404)
    ELSE IF ~HasWords(f) THEN Error(404)
    ELSE IF ScanCategories(f.data["words"], id, 1)[1] = 0 THEN Error(404)
    ELSE Ok(FoundItem(f.data, id))

\* GET /item/{filename}/{item_id}
GetItemResponse(f, id) ==
    IF IsNone(f) THEN Error(404)
    ELSE IF ~HasWords(f) THEN Error(400)
    ELSE IF ScanCategories(f.data["words"], id, 1)[1] = 0 THEN Error(404)
    ELSE Ok(FoundItem(f.data, id))

\* GET /health: get_all_json_files() runs, then datetime.now() raises
\* NameError (the module never imports datetime) and the framework
\* answers 500
HealthResponse(f) ==
    LET files == GetAllJsonFiles(f)
    IN  Error(500)

\* save_json_file, io being what the filesystem does: "ok"; "open_fails"
\* (open(..., 'w') raises, the file is untouched); "write_fails" (the file
\* was truncated by open and json.dump raised part-way)
SavedFile(f, data, io) ==
    CASE io = "ok" -> Dumped(data)
      [] io = "open_fails" -> f
      [] OTHER -> Corrupt

\* the update with the result of save_json_file ignored
UpdateOutcomeIgnoresSave(f, id, learned, custom, io) ==
    IF IsNone(f) THEN [status |-> 404, body |-> <<>>, file |-> f]
    ELSE IF ~HasWords(f) THEN [status |-> 400, body |-> <<>>, file |-> f]
    ELSE IF ScanCategories(f.data["words"], id, 1)[1] = 0
         THEN [status |-> 404, body |-> <<>>, file |-> f]
    ELSE [status |-> 200,
          body |-> UpdatedItem(f.data, id, learned, custom),
          file |-> SavedFile(f, UpdateData(f.data, id, learned, custom), io)]

\* the update saving before it looks at item_found
UpdateOutcomeSavesUnfound(f, id, learned, custom, io) ==
    IF IsNone(f) THEN [status |-> 404, body |-> <<>>, file |-> f]
    ELSE IF ~HasWords(f) THEN [status |-> 400, body |-> <<>>, file |-> f]
    ELSE LET data == UpdateData(f.data, id, learned, custom)
             saved == SavedFile(f, data, io)
         IN  IF ScanCategories(f.data["words"], id, 1)[1] = 0
             THEN [status |-> 404, body |-> <<>>, file |-> saved]
             ELSE IF io = "ok"
             THEN [status |-> 200,
                   body |-> UpdatedItem(f.data, id, learned, custom),
                   file |-> saved]
             ELSE [status |-> 500, body |-> <<>>, file |-> saved]

\* PUT /update/{filename}/{item_id}: [status, body, file], file being what
\* the request leaves on disk
UpdateOutcome(f, id, learned, custom, io) ==
    IF IsNone(f) THEN [status |-> 404, body |-> <<>>, file |-> f]
    ELSE IF ~HasWords(f) THEN [status |-> 400, body |-> <<>>, file |-> f]
    ELSE IF ScanCategories(f.data["words"], id, 1)[1] = 0
         THEN [status |-> 404, body |-> <<>>, file |-> f]
    ELSE LET data == UpdateData(f.data, id, learned, custom)
         IN  IF io = "ok"
             THEN [status |-> 200,
                   body |-> UpdatedItem(f.data, id, learned, custom),
                   file |-> SavedFile(f, data, io)]
             ELSE [status |-> 500, body |-> <<>>,
                   file |-> SavedFile(f, data, io)]

----------------------------------------------------------------------------
(* Bounded inputs *)

\* items in a document, over all its categories
MaxItems == 2
\* categories in a document
MaxCats == 2
\* items in a document of the statistics runs
StatsMaxItems == 5

ItemIds == {1, 2}
IoOutcomes == {"ok", "open_fails", "write_fails"}

\* the dicts over the keys K with values drawn per key from vals[k]
Dicts(K, vals) == UNION {[D -> UNION {vals[k] : k \in D}] : D \in SUBSET K}

DictsOf(vals) ==
    {d \in Dicts(DOMAIN vals, vals) : \A k \in DOMAIN d : d[k] \in vals[k]}

\* the category names by position: named, unnamed, named like the first
NameAt(c) == IF c % 2 = 1 THEN <<StrV(<<"n","o","u","n">>)>> ELSE <<>>

Category(c, items) ==
    IF NameAt(c) = <<>> THEN [items |-> items]
    ELSE [category |-> NameAt(c)[1], items |-> items]

\* the sum of the first c entries of a sequence of numbers
RECURSIVE SumTo(_, _)
SumTo(sh, c) == IF c = 0 THEN 0 ELSE sh[c] + SumTo(sh, c - 1)

\* the words array of Len(sh) categories, category c holding the next sh[c]
\* items of the sequence its
WordsOf(sh, its) ==
    [c \in 1..Len(sh) |->
        Category(c, SubSeq(its, SumTo(sh, c - 1) + 1, SumTo(sh, c)))]

Original(data) == [kind |-> "json", fmt |-> "original", data |-> data]

\* the file is a document as first written: an object whose "words" are at
\* most maxCats categories holding at most maxItems items of U in all
HoldsDocument(U, maxCats, maxItems) ==
    \E n \in 0..maxCats :
        \E sh \in [1..n -> 0..maxItems] :
            /\ SumTo(sh, n) <= maxItems
            /\ \E its \in [1..SumTo(sh, n) -> U] :
                  file = Original([words |-> WordsOf(sh, its)])

\* items of the store runs: id and learned each present or not
StoreItems ==
    DictsOf([id |-> {IntV(i) : i \in ItemIds},
             learned |-> {BoolV(TRUE), BoolV(FALSE)}])

\* a category without an "items" key, and top-level objects without "words"
NoItemsDoc == [words |-> <<[category |-> StrV(<<"n","o","u","n">>)]>>]
NoWordsDocs == {[version |-> IntV(1)], [word |-> <<>>]}

OtherFiles ==
    {Missing, Corrupt} \cup {Original(d) : d \in NoWordsDocs \cup {NoItemsDoc}}

LearnedArgs == {<<>>, <<TRUE>>, <<FALSE>>}
CustomArgs ==
    {<<>>,
     <<[k \in {} |-> IntV(0)]>>,
     <<[learned |-> BoolV(FALSE), id |-> IntV(2)]>>}
StoreQueries == {<<"T">>, <<"2">>}
StoreFields == {<<>>, <<"learned">>}

----------------------------------------------------------------------------
(* Requests served one at a time: uvicorn.run(app) is one process with one
   event loop, and no handler awaits, so a handler runs to its end before
   the next request is looked at.  Nothing but the file outlives a request:
   last and before describe the request being answered and are forgotten
   when the response has gone out. *)

NoArgs ==
    [id |-> 0, learned |-> <<>>, custom |-> <<>>, q |-> <<>>, field |-> <<>>,
     io |-> "ok"]

Served(op, args, r) ==
    [op |-> op, args |-> args, status |-> r.status, body |-> r.body]

Workers == {"w1", "w2"}

Idle == [w \in Workers |-> [pc |-> "idle", id |-> 0, learned |-> <<>>,
                            data |-> <<>>, status |-> 0, saved |-> 0]]

Waiting == Served("none", NoArgs, Error(0))

Read(op, args, r) ==
    /\ last = Waiting
    /\ last' = Served(op, args, r)
    /\ before' = file
    /\ UNCHANGED <<file, proc>>

Root == Read("root", NoArgs, ListFilesResponse(file))

ListFiles == Read("files", NoArgs, ListFilesResponse(file))

GetFile == Read("file", NoArgs, GetFileResponse(file))

Search(q, field) ==
    Read("search", [NoArgs EXCEPT !.q = q, !.field = field],
         SearchResponse(file, q, field))

GetFileStats == Read("stats", NoArgs, StatsResponse(file))

GetCategories == Read("categories", NoArgs, CategoriesResponse(file))

GetItemById(id) ==
    Read("item", [NoArgs EXCEPT !.id = id], GetItemResponse(file, id))

HealthCheck == Read("health", NoArgs, HealthResponse(file))

UpdateItem(id, learned, custom, io) ==
    LET r == UpdateOutcome(file, id, learned, custom, io)
    IN  /\ last = Waiting
        /\ last' = Served("update",
                          [NoArgs EXCEPT !.id = id, !.learned = learned,
                                         !.custom = custom, !.io = io], r)
        /\ before' = file
        /\ file' = r.file
        /\ UNCHANGED proc

\* the response is sent and the server waits for the next request
Respond ==
    /\ last # Waiting
    /\ last' = Waiting
    /\ before' = file
    /\ UNCHANGED <<file, proc>>

Init ==
    /\ file \in OtherFiles \/ HoldsDocument(StoreItems, MaxCats, MaxItems)
    /\ before = file
    /\ last = Waiting
    /\ proc = Idle

Next ==
    \/ Root
    \/ ListFiles
    \/ GetFile
    \/ \E q \in StoreQueries, field \in StoreFields : Search(q, field)
    \/ GetFileStats
    \/ GetCategories
    \/ \E id \in ItemIds : GetItemById(id)
    \/ HealthCheck
    \/ \E id \in ItemIds, learned \in LearnedArgs, custom \in CustomArgs,
          io \in IoOutcomes : UpdateItem(id, learned, custom, io)
    \/ Respond

Spec == Init /\ [][Next]_vars

----------------------------------------------------------------------------
(* Search over documents with text fields (SpecSearch) *)

SearchDocItems ==
    DictsOf([korean |-> {StrV(<<"a","B">>), StrV(<<"c">>)},
             russian |-> {StrV(<<"b">>)},
             learned |-> {BoolV(TRUE)}])

SearchQueries == {<<>>, <<"B">>, <<"A","b">>, <<"t","R">>, <<"c","c">>}
SearchFields == {<<>>, <<"">>, <<"korean">>, <<"learned">>}

InitSearch ==
    /\ HoldsDocument(SearchDocItems, MaxCats, MaxItems)
    /\ before = file
    /\ last = Waiting
    /\ proc = Idle

NextSearch ==
    \/ \E q \in SearchQueries, field \in SearchFields : Search(q, field)
    \/ Respond

SpecSearch == InitSearch /\ [][NextSearch]_vars

----------------------------------------------------------------------------
(* Statistics over documents of more items (SpecStats) *)

StatsDocItems ==
    DictsOf([learned |-> {BoolV(TRUE), BoolV(FALSE), StrV(<<"y">>)}])

InitStats ==
    /\ HoldsDocument(StatsDocItems, MaxCats, StatsMaxItems)
    /\ before = file
    /\ last = Waiting
    /\ proc = Idle

NextStats ==
    \/ GetFileStats
    \/ GetCategories
    \/ Respond

SpecStats == InitStats /\ [][NextStats]_vars

----------------------------------------------------------------------------
(* Two update requests handled by two server processes (SpecWorkers): the
   application served by more than one worker process, as uvicorn and
   gunicorn do when asked to.  Between processes the steps of update_item
   that touch the file are apart: the load, the open for writing (which
   truncates) and the write of the dump.  before keeps the file as it was
   when the processes started. *)

WorkerItems ==
    {d \in DictsOf([id |-> {IntV(i) : i \in ItemIds},
                    learned |-> {BoolV(FALSE)}]) : "id" \in DOMAIN d}

\* load_json_file and the checks that follow it, in process w
WorkerLoad(w, id, learned) ==
    /\ proc[w].pc = "idle"
    /\ LET status == IF IsNone(file) THEN 404
                     ELSE IF ~HasWords(file) THEN 400
                     ELSE IF ScanCategories(file.data["words"], id, 1)[1] = 0
                          THEN 404
                     ELSE 200
       IN  proc' = [proc EXCEPT ![w] =
                      IF status = 200
                      THEN [@ EXCEPT !.pc = "loaded", !.id = id,
                                     !.learned = learned, !.data = file.data]
                      ELSE [@ EXCEPT !.pc = "done", !.id = id,
                                     !.learned = learned, !.status = status]]
    /\ UNCHANGED <<file, before, last>>

\* save_json_file's open(file_path, 'w'): the file is emptied, or open
\* raises and the request ends with 500
WorkerOpen(w, ok) ==
    /\ proc[w].pc = "loaded"
    /\ IF ok
       THEN /\ file' = Corrupt
            /\ proc' = [proc EXCEPT ![w].pc = "opened"]
       ELSE /\ file' = SavedFile(file, proc[w].data, "open_fails")
            /\ proc' = [proc EXCEPT ![w].pc = "done", ![w].status = 500]
    /\ UNCHANGED <<before, last>>

\* save_json_file's json.dump and close: the dump of the data this process
\* loaded and mutated lands in the file.  When another process wrote since
\* this one emptied the file, the longer earlier text may outlast the dump
\* (tail), which leaves no valid JSON.  A failing write leaves the file cut.
WorkerWrite(w, ok, tail) ==
    /\ proc[w].pc = "opened"
    /\ LET data == UpdateData(proc[w].data, proc[w].id, proc[w].learned, <<>>)
           order == 1 + Cardinality({v \in Workers : proc[v].saved > 0})
       IN  IF ok
           THEN /\ file' = IF tail /\ file.kind = "json" THEN Corrupt
                           ELSE SavedFile(file, data, "ok")
                /\ proc' = [proc EXCEPT ![w].pc = "done", ![w].status = 200,
                                        ![w].saved = order]
           ELSE /\ file' = SavedFile(file, data, "write_fails")
                /\ proc' = [proc EXCEPT ![w].pc = "done", ![w].status = 500]
    /\ UNCHANGED <<before, last>>

InitWorkers ==
    /\ file \in OtherFiles \/ HoldsDocument(WorkerItems, MaxCats, MaxItems)
    /\ before = file
    /\ last = Waiting
    /\ proc = Idle

NextWorkers ==
    \E w \in Workers :
        \/ \E id \in ItemIds : WorkerLoad(w, id, <<TRUE>>)
        \/ \E ok \in BOOLEAN : WorkerOpen(w, ok)
        \/ \E ok \in BOOLEAN, tail \in BOOLEAN : WorkerWrite(w, ok, tail)

SpecWorkers == InitWorkers /\ [][NextWorkers]_vars

----------------------------------------------------------------------------
(* The vocabulary of the properties: a document read as the set of the
   places <<category, item>> of its items, in document order *)

Places(words) ==
    UNION {{<<c, i>> : i \in 1..Len(CatItems(words[c]))} : c \in 1..Len(words)}

ItemAt(words, p) == CatItems(words[p[1]])[p[2]]

Precedes(p, r) == p[1] < r[1] \/ (p[1] = r[1] /\ p[2] < r[2])

HasId(item, id) == "id" \in DOMAIN item /\ PyEqInt(item["id"], id)

WithId(words, id) == {p \in Places(words) : HasId(ItemAt(words, p), id)}

\* the first place of S in document order
First(S) == CHOOSE p \in S : \A r \in S : r = p \/ Precedes(p, r)

IsLearned(item) == "learned" \in DOMAIN item /\ Truthy(item["learned"])

LearnedPlaces(words) == {p \in Places(words) : IsLearned(ItemAt(words, p))}

\* item x is item y annotated with the category name
IsAnnotated(x, y, name) ==
    /\ DOMAIN x = DOMAIN y \cup {"category"}
    /\ x["category"] = name
    /\ \A k \in DOMAIN y \ {"category"} : x[k] = y[k]

Answered(op) == last.op = op /\ before.kind = "json" /\ HasWords(before)

----------------------------------------------------------------------------
(* Properties of the store served one request at a time (Spec) *)

C1_Case ==
    /\ last.op = "update"
    /\ last.status = 200
    /\ last.args.learned = <<TRUE>>
    /\ \/ last.args.custom = <<>>
       \/ DOMAIN last.args.custom[1] \cap {"id", "learned"} = {}

C1_LearnedBefore == StatsResponse(before).body.overall.learned_items
C1_LearnedAfter == StatsResponse(file).body.overall.learned_items

\* C1: after a successful update with learned=true (and no custom field
\* writing id or learned) the lookup of the same id answers an item with
\* learned = true, and the overall learned_items of the statistics is one
\* more than before when the first item with that id was not learned, and
\* the same when it was.
C1_UpdateLearned ==
    C1_Case =>
        LET id == last.args.id
            old == before.data["words"]
            target == ItemAt(old, First(WithId(old, id)))
            got == GetItemResponse(file, id)
        IN  /\ got.status = 200
            /\ "learned" \in DOMAIN got.body
            /\ got.body["learned"] = BoolV(TRUE)
            /\ C1_LearnedAfter =
                 C1_LearnedBefore + (IF IsLearned(target) THEN 0 ELSE 1)

C1_Witness ==
    /\ C1_Case
    /\ C1_LearnedAfter = C1_LearnedBefore + 1
    /\ Cardinality(WithId(before.data["words"], last.args.id)) > 1

\* C2: the lookup answers the first item, in document order, whose id equals
\* the requested one, as a copy carrying the name of the category that owns
\* it (also when the id occurs more than once), and 404 when no item has the
\* id; the stored document is left as it was.
C2_GetItemFirstMatch ==
    Answered("item") =>
        LET words == before.data["words"]
            S == WithId(words, last.args.id)
        IN  /\ file = before
            /\ IF S = {} THEN last.status = 404
               ELSE /\ last.status = 200
                    /\ IsAnnotated(last.body, ItemAt(words, First(S)),
                                   CatName(words[First(S)[1]]))

C2_Witness ==
    /\ Answered("item")
    /\ last.status = 200
    /\ \E p, r \in WithId(before.data["words"], last.args.id) :
          /\ p[1] # r[1]
          /\ ItemAt(before.data["words"], p) # ItemAt(before.data["words"], r)

\* C5: the update classifies its outcome in a fixed order: no loadable file
\* 404; a document without "words" 400; no item with the id 404; a located
\* item that cannot be saved 500; otherwise 200 with the updated item
\* annotated with its category.  Search, statistics and the category list
\* fail with the same 404-then-400 order.
C5_Classification ==
    /\ last.op = "update" =>
         IF before.kind # "json" THEN last.status = 404
         ELSE IF ~HasWords(before) THEN last.status = 400
         ELSE IF WithId(before.data["words"], last.args.id) = {}
              THEN last.status = 404
         ELSE IF last.args.io # "ok" THEN last.status = 500
         ELSE LET p == First(WithId(before.data["words"], last.args.id))
                  words == file.data["words"]
              IN  /\ last.status = 200
                  /\ IsAnnotated(last.body, ItemAt(words, p), CatName(words[p[1]]))
    /\ last.op \in {"search", "stats", "categories"} =>
         IF before.kind # "json" THEN last.status = 404
         ELSE IF ~HasWords(before) THEN last.status = 400
         ELSE last.status = 200

C5_Witness ==
    /\ last.op = "update"
    /\ last.status = 500
    /\ file # before

\* C6: GET /health has no failure outcome: whatever the data directory
\* holds, it answers 200.
C6_HealthNeverFails == last.op = "health" => last.status = 200

\* C7 as stated: a failing point lookup reports 404 and nothing else.
C7_OnlyNotFound ==
    (last.op = "item" /\ last.status # 200) => last.status = 404

\* C7: a point lookup fails with 404 exactly when the file is missing or
\* unparsable or no item has the id, and with 400 exactly when the loaded
\* document has no "words" field; it fails in no other way.
C7_LookupFailures ==
    last.op = "item" =>
        /\ last.status \in {200, 400, 404}
        /\ last.status = 400 <=> (before.kind = "json" /\ ~HasWords(before))
        /\ last.status = 404 <=>
             \/ before.kind # "json"
             \/ /\ HasWords(before)
                /\ WithId(before.data["words"], last.args.id) = {}

C7_Witness == last.op = "item" /\ last.status = 400

C9_Case == last.op = "update" /\ last.status = 200

C9_Custom ==
    IF last.args.custom = <<>> THEN [k \in {} |-> IntV(0)]
    ELSE last.args.custom[1]

C9_Written ==
    (IF last.args.learned # <<>> THEN {"learned"} ELSE {}) \cup DOMAIN C9_Custom

\* C9: a successful update changes, in the stored document, only the first
\* item in document order with the id, and in it only "learned" (when given)
\* and the keys of customFields, each set verbatim and added when absent;
\* other fields, other items (later ones with the same id too), category
\* names and the number and order of categories and items stay as they were.
C9_Frame ==
    C9_Case =>
        LET old == before.data
            new == file.data
            p == First(WithId(old["words"], last.args.id))
            x == ItemAt(old["words"], p)
            y == ItemAt(new["words"], p)
        IN  /\ file.kind = "json"
            /\ DOMAIN new = DOMAIN old
            /\ \A k \in DOMAIN old \ {"words"} : new[k] = old[k]
            /\ Len(new["words"]) = Len(old["words"])
            /\ \A c \in 1..Len(old["words"]) :
                  /\ DOMAIN new["words"][c] = DOMAIN old["words"][c]
                  /\ CatName(new["words"][c]) = CatName(old["words"][c])
                  /\ Len(CatItems(new["words"][c])) = Len(CatItems(old["words"][c]))
            /\ \A r \in Places(old["words"]) \ {p} :
                  ItemAt(new["words"], r) = ItemAt(old["words"], r)
            /\ DOMAIN y = DOMAIN x \cup C9_Written
            /\ \A k \in DOMAIN x \ C9_Written : y[k] = x[k]
            /\ \A k \in DOMAIN C9_Custom : y[k] = C9_Custom[k]
            /\ (last.args.learned # <<>> /\ "learned" \notin DOMAIN C9_Custom)
                  => y["learned"] = BoolV(last.args.learned[1])

C9_Witness ==
    /\ C9_Case
    /\ Cardinality(WithId(before.data["words"], last.args.id)) > 1
    /\ DOMAIN C9_Custom # {}
    /\ last.args.learned # <<>>
    /\ file.data # before.data

\* C10: the file is written only by an update that has located its item:
\* every other request, and an update answered 404 or 400, leaves the file
\* exactly as it was; and the category annotation of returned items is never
\* in a stored item.
C10_OnlyLocatedUpdateWrites ==
    /\ (\/ last.op \in {"root", "files", "file", "search", "item", "stats",
                        "categories"}
        \/ (last.op = "update" /\ last.status \in {400, 404}))
          => file = before
    /\ (file.kind = "json" /\ HasWords(file)) =>
          \A p \in Places(file.data["words"]) :
              "category" \notin DOMAIN ItemAt(file.data["words"], p)

C10_Witness ==
    /\ last.op = "update"
    /\ last.status = 404
    /\ Answered("update")
    /\ Places(before.data["words"]) # {}

----------------------------------------------------------------------------
(* Properties of the search (SpecSearch) *)

\* text contains q when letter case is ignored
ContainsNoCase(q, text) ==
    \E i \in 0..(Len(text) - Len(q)) :
        \A j \in 1..Len(q) : LowerChar(text[i + j]) = LowerChar(q[j])

AnyTextFieldHas(item, q) ==
    \E k \in DOMAIN item : item[k].t = "str" /\ ContainsNoCase(q, item[k].s)

FieldHas(item, q, name) ==
    name \in DOMAIN item /\ ContainsNoCase(q, Str(item[name]))

\* the results are exactly the items at the places M, in document order,
\* each annotated with its category, and count is their number
ResultsAre(M) ==
    LET words == before.data["words"]
        results == last.body.results
    IN  /\ last.status = 200
        /\ last.body.count = Len(results)
        /\ Len(results) = Cardinality(M)
        /\ \A p \in M :
              IsAnnotated(results[Cardinality({r \in M : Precedes(r, p)}) + 1],
                          ItemAt(words, p), CatName(words[p[1]]))

\* C3 as stated: the search returns exactly the matching items in document
\* order with their count; with no field an item matches when one of its
\* string fields contains q ignoring case, and with a field given when it has
\* that field and the field's value as a string contains q ignoring case.
C3_SearchExact ==
    Answered("search") =>
        LET words == before.data["words"]
            q == last.args.q
            field == last.args.field
        IN  ResultsAre({p \in Places(words) :
                          IF field = <<>>
                          THEN AnyTextFieldHas(ItemAt(words, p), q)
                          ELSE FieldHas(ItemAt(words, p), q, field[1])})

\* C3: as C3_SearchExact, an empty field name counting as no field.
C3_SearchExactEmptyField ==
    Answered("search") =>
        LET words == before.data["words"]
            q == last.args.q
            field == last.args.field
        IN  ResultsAre({p \in Places(words) :
                          IF field = <<>> \/ field = <<"">>
                          THEN AnyTextFieldHas(ItemAt(words, p), q)
                          ELSE FieldHas(ItemAt(words, p), q, field[1])})

C3_Witness ==
    /\ Answered("search")
    /\ last.args.field = <<"">>
    /\ last.args.q = <<"A","b">>
    /\ last.body.count = 2
    /\ last.body.results[1]["category"] # last.body.results[2]["category"]

----------------------------------------------------------------------------
(* Properties of the statistics (SpecStats) *)

\* pct, in tenths, is learned/total*100 to the nearest tenth, within 0..100,
\* and 0 for an empty total
IsPercentage(pct, learned, total) ==
    /\ 0 <= pct
    /\ pct <= 1000
    /\ IF total = 0 THEN pct = 0
       ELSE /\ 2 * (pct * total - 1000 * learned) <= total
            /\ 2 * (1000 * learned - pct * total) <= total

\* C4: the statistics give, per category, total = its number of items and
\* learned = the number of them with a truthy learned field; overall the
\* sums over the categories, remaining = total - learned; and every
\* percentage is learned/total*100 to one decimal, between 0 and 100, and 0
\* for a total of 0.
C4_Stats ==
    Answered("stats") =>
        LET words == before.data["words"]
            o == last.body.overall
            by == last.body.by_category
        IN  /\ last.status = 200
            /\ Len(by) = Len(words)
            /\ \A c \in 1..Len(words) :
                  /\ by[c].category = CatName(words[c])
                  /\ by[c].total = Cardinality({p \in Places(words) : p[1] = c})
                  /\ by[c].learned =
                       Cardinality({p \in LearnedPlaces(words) : p[1] = c})
                  /\ IsPercentage(by[c].percentage, by[c].learned, by[c].total)
            /\ o.total_items = Cardinality(Places(words))
            /\ o.learned_items = Cardinality(LearnedPlaces(words))
            /\ o.remaining = o.total_items - o.learned_items
            /\ IsPercentage(o.percentage, o.learned_items, o.total_items)

C4_Witness ==
    /\ Answered("stats")
    /\ last.body.overall.percentage = 667
    /\ \E c \in 1..Len(last.body.by_category) :
          last.body.by_category[c].total = 0
    /\ \E p \in LearnedPlaces(before.data["words"]) :
          ItemAt(before.data["words"], p)["learned"].t = "str"

----------------------------------------------------------------------------
(* Properties of two processes updating at once (SpecWorkers) *)

\* the place process w updates
C8_Place(w) == First(WithId(proc[w].data["words"], proc[w].id))

\* both processes loaded the file as it was before either wrote, each
\* updated another item, and both answered 200
C8_Case ==
    /\ \A w \in Workers :
          /\ proc[w].pc = "done"
          /\ proc[w].status = 200
          /\ before.kind = "json"
          /\ proc[w].data = before.data
    /\ C8_Place("w1") # C8_Place("w2")

====
